---- MODULE Spec2Model ----
(***************************************************************************)
(* Model of the Telegram video-circle bot's handlers (src/handlers.py) as  *)
(* they are dispatched by the Application built in src/main.py.            *)
(*                                                                         *)
(* Strings that the code splits or substitutes in (file_unique_id and      *)
(* callback_data) are sequences of tokens: ":" and "_" are the two         *)
(* characters the code treats specially, every other token stands for a    *)
(* run of characters containing neither.                                   *)
(*                                                                         *)
(* Storage is a function from temporary paths to what the file holds.      *)
(* os.remove is taken to succeed on an existing file.                      *)
(***************************************************************************)
EXTENDS Integers, Sequences, FiniteSets, TLC

\* ------------------------------------------------------------------ bounds
\* Message identifiers the platform hands out are drawn from 1..MaxMessageId.
MaxMessageId == 1

\* ------------------------------------------------------- program constants
MAX_DURATION_SECONDS == 60

\* MAX_FILE_SIZE_BYTES, counted in MiB (12 * 1024 * 1024 bytes)
MAX_FILE_SIZE_BYTES == 12

\* ------------------------------------------------------------- the inputs
Users == {1, 2}

MessageIds == 1..MaxMessageId

\* Python's None, where a string is expected
None == <<"None">>

\* What a path holds: nothing, the bytes of an interrupted write, or a whole
\* file.  content is the file_unique_id of the media the bytes come from,
\* size is the size in MiB of an encoded output.
Absent == [state |-> "absent", content |-> None, size |-> 0]

Partial == [state |-> "partial", content |-> None, size |-> 0]

Complete(content, size) == [state |-> "complete", content |-> content, size |-> size]

\* The media the platform can deliver.  A file_unique_id names one file, so
\* the kind, the duration (seconds) and the presence of an audio track are
\* functions of it.
Media ==
    { [file_unique_id |-> <<"a">>,           media_type |-> "video",
       duration |-> 90, audio |-> TRUE],
      [file_unique_id |-> <<"a", "_", "b">>, media_type |-> "video",
       duration |-> 60, audio |-> TRUE],
      [file_unique_id |-> <<"a", ":", "b">>, media_type |-> "animation",
       duration |-> 10, audio |-> FALSE] }

\* The media each user sends: the first user any of them, the second one only.
Inbound(u) == IF u = 1 THEN Media ELSE { m \in Media : m.file_unique_id = <<"a">> }

FileIds == { m.file_unique_id : m \in Media }

MediaOf(id) == CHOOSE m \in Media : m.file_unique_id = id

\* Sizes (MiB) an encode can produce: the largest that is accepted and the
\* smallest that is not.
FileSizes == {MAX_FILE_SIZE_BYTES, MAX_FILE_SIZE_BYTES + 1}

\* -------------------------------------------------------- string helpers
\* str.replace(old, new) for single characters
Replace(s, old, new) == [i \in 1..Len(s) |-> IF s[i] = old THEN new ELSE s[i]]

\* str.split(':')
RECURSIVE Split(_)
Split(s) ==
    IF \A i \in 1..Len(s) : s[i] # ":"
    THEN <<s>>
    ELSE LET i == CHOOSE k \in 1..Len(s) :
                     s[k] = ":" /\ \A j \in 1..(k - 1) : s[j] # ":"
         IN  <<SubSeq(s, 1, i - 1)>> \o Split(SubSeq(s, i + 1, Len(s)))

\* base_data = file_unique_id.replace(':', '_')
base_data(file_unique_id) == Replace(file_unique_id, ":", "_")

\* file_unique_id = data_parts[-1] if len(data_parts) > 1 else None, then
\* file_unique_id.replace('_', ':') if file_unique_id else None
DecodeId(data_parts) ==
    IF Len(data_parts) > 1
    THEN Replace(data_parts[Len(data_parts)], "_", ":")
    ELSE None

keep_audio == <<"keep", "_", "audio">>

mute_audio == <<"mute", "_", "audio">>

no_trim == <<"no", "_", "trim">>

trim_word == <<"trim">>

\* f"{action}:{audio_choice}:{trim_choice}:{base_data}"
CallbackData(action, audio_choice, trim_choice, bd) ==
    action \o <<":">> \o audio_choice \o <<":">> \o trim_choice \o <<":">> \o bd

\* needs_trim = actual_duration > MAX_DURATION_SECONDS
needs_trim_ge(actual_duration) == actual_duration >= MAX_DURATION_SECONDS

needs_trim(actual_duration) == actual_duration > MAX_DURATION_SECONDS

\* keyboard_buttons: the callback_data of the buttons of the prompt
keyboard_buttons(file_unique_id, actual_duration) ==
    LET bd == base_data(file_unique_id)
        tc == IF needs_trim(actual_duration) THEN trim_word ELSE no_trim
    IN  { CallbackData(<<"process">>, keep_audio, tc, bd),
          CallbackData(<<"process">>, mute_audio, tc, bd),
          CallbackData(<<"cancel">>, <<"na">>, <<"na">>, bd) }

\* ------------------------------------------------------------ temp files
\* get_temp_filenames(user_id)
get_temp_filenames_shared(user_id) ==
    << <<"input_media_", ".tmp">>, <<"output_video_", ".mp4">> >>

get_temp_filenames(user_id) ==
    << <<"input_media_", user_id, ".tmp">>, <<"output_video_", user_id, ".mp4">> >>

Paths ==
    UNION { { get_temp_filenames(u)[1], get_temp_filenames(u)[2] } : u \in Users }

\* cleanup_files(*filenames): every named file that exists is removed
cleanup_files_first(fs, filenames) ==
    [p \in DOMAIN fs |->
        IF Len(filenames) > 0 /\ filenames[1] = p THEN Absent ELSE fs[p]]

cleanup_files(fs, filenames) ==
    [p \in DOMAIN fs |->
        IF \E i \in 1..Len(filenames) : filenames[i] = p THEN Absent ELSE fs[p]]

\* os.path.exists
exists(fs, filename) == fs[filename] # Absent

\* -------------------------------------------------------------- registry
\* user_key = f"media_{file_unique_id}"
user_key(file_unique_id) == <<"media_">> \o file_unique_id

\* context.user_data[key] = value
DictSkip(d, key, value) == d

DictSet(d, key, value) ==
    [k \in DOMAIN d \cup {key} |-> IF k = key THEN value ELSE d[k]]

\* the value context.user_data.pop(key, None) returns: NoMediaData for None
NoMediaData ==
    [input_filename |-> None, media_type |-> "", chat_id |-> 0, status_message_id |-> 0]

DictGet(d, key) == IF key \in DOMAIN d THEN d[key] ELSE NoMediaData

\* the dictionary context.user_data.pop(key, None) leaves behind
DictKeep(d, key) == d

DictPop(d, key) == [k \in DOMAIN d \ {key} |-> d[k]]

EmptyDict == [k \in {} |-> NoMediaData]

\* ----------------------------------------------------------------- state
VARIABLES
    files,      \* local storage: path -> what the file holds
    user_data,  \* context.user_data of every user (the registry)
    h,          \* the handler the Application is running, with its locals
    consumed    \* per user, the keys popped and not stored again since

vars == <<files, user_data, h, consumed>>

\* The Application is built without concurrent_updates, and the handlers are
\* blocking: an update is dispatched only when the handler of the previous
\* one has returned or raised.
concurrent_updates == FALSE

Terminal == {"idle", "done", "raised"}

\* The locals of a handler before its first statement.  shown is the text
\* the status message of the run displays; lookup, found, registered,
\* converted, uploads and exit_path record what the run has done so far,
\* repeated that the key it looked up had been popped before and not
\* stored again since, branch the branch button_handler took after the pop.
NewFrame ==
    [ pc                |-> "idle",
      handler           |-> "",
      user_id           |-> 0,
      chat_id           |-> 0,
      file_unique_id    |-> None,
      media_type        |-> "",
      data              |-> None,
      input_filename    |-> None,
      output_filename   |-> None,
      status_message_id |-> 0,
      shown             |-> "",
      buttons           |-> {},
      input_clip        |-> None,
      actual_duration   |-> 0,
      mute              |-> FALSE,
      trim              |-> FALSE,
      clip_duration     |-> 0,
      clip_audio        |-> FALSE,
      final_duration    |-> 0,
      audio_codec       |-> "",
      lookup            |-> FALSE,
      repeated          |-> FALSE,
      branch            |-> "",
      found             |-> FALSE,
      registered        |-> FALSE,
      converted         |-> FALSE,
      uploads           |-> 0,
      sent_duration     |-> 0,
      exit_path         |-> "" ]

\* The handler returns (pc "done") or lets an exception out (pc "raised"):
\* its locals are gone, what it has shown and done stays on record.
Leave(frame, pc) ==
    [frame EXCEPT !.pc = pc, !.data = None, !.chat_id = 0,
                  !.status_message_id = 0, !.media_type = "",
                  !.input_filename = None, !.output_filename = None,
                  !.input_clip = None, !.mute = FALSE, !.trim = FALSE,
                  !.clip_duration = 0, !.clip_audio = FALSE,
                  !.final_duration = 0, !.audio_codec = ""]

Init ==
    /\ files = [p \in Paths |-> Absent]
    /\ user_data = [u \in Users |-> EmptyDict]
    /\ h = NewFrame
    /\ consumed = [u \in Users |-> {}]

\* An update reaches its handler.
CanDispatch == concurrent_updates \/ h.pc \in Terminal

\* --------------------------------------------------------- process_media
\* lines 60-84: the locals, and the cleanup of the user's old files
ProcessMedia(u, m) ==
    /\ CanDispatch
    /\ h' = [NewFrame EXCEPT
                !.pc = "pm_reply",
                !.handler = "process_media",
                !.user_id = u,
                !.chat_id = u,
                !.file_unique_id = m.file_unique_id,
                !.media_type = m.media_type,
                !.input_filename = get_temp_filenames(u)[1],
                !.output_filename = get_temp_filenames(u)[2]]
    /\ files' = cleanup_files(files, get_temp_filenames(u))
    /\ UNCHANGED <<user_data, consumed>>

\* lines 86-87: reply_text and send_chat_action, outside every try
PmReply ==
    /\ h.pc = "pm_reply"
    /\ \E outcome \in {"ok", "reply_fails", "chat_action_fails"},
          mid \in MessageIds :
          h' = CASE outcome = "ok" ->
                      [h EXCEPT !.pc = "pm_download", !.shown = "downloading",
                                !.status_message_id = mid]
                 [] outcome = "chat_action_fails" ->
                      Leave([h EXCEPT !.shown = "downloading"], "raised")
                 [] OTHER -> Leave(h, "raised")
    /\ UNCHANGED <<files, user_data, consumed>>

\* lines 92-95: get_file and download_to_drive succeed
PmDownloadOk ==
    /\ h.pc = "pm_download"
    /\ files' = [files EXCEPT ![h.input_filename] = Complete(h.file_unique_id, 0)]
    /\ h' = [h EXCEPT !.pc = "pm_probe"]
    /\ UNCHANGED <<user_data, consumed>>

\* lines 96-99: BadRequest, before anything is written.  An edit that raises
\* here is caught by the outer except (line 161).
PmDownloadBadRequest ==
    /\ h.pc = "pm_download"
    /\ \E edit_ok \in BOOLEAN :
          h' = IF edit_ok
               THEN Leave([h EXCEPT !.shown = "download_failed"], "done")
               ELSE [h EXCEPT !.pc = "pm_except"]
    /\ UNCHANGED <<files, user_data, consumed>>

\* lines 100-103: any other error; written is whether download_to_drive
\* had already put bytes at input_filename
PmDownloadError ==
    /\ h.pc = "pm_download"
    /\ \E written \in BOOLEAN :
          files' = IF written
                   THEN [files EXCEPT ![h.input_filename] = Partial]
                   ELSE files
    /\ \E edit_ok \in BOOLEAN :
          h' = IF edit_ok
               THEN Leave([h EXCEPT !.shown = "download_error"], "done")
               ELSE [h EXCEPT !.pc = "pm_except"]
    /\ UNCHANGED <<user_data, consumed>>

\* lines 106-118: the status edit, the probe and the check of the duration
PmProbe ==
    /\ h.pc = "pm_probe"
    /\ \E outcome \in {"edit_fails", "probe_raises", "no_duration",
                       "zero_duration", "ok"},
          edit_ok \in BOOLEAN :
          CASE outcome = "edit_fails" ->
                  /\ h' = [h EXCEPT !.pc = "pm_except"]
                  /\ files' = files
            [] outcome = "probe_raises" ->
                  /\ h' = [h EXCEPT !.pc = "pm_except", !.shown = "analysing"]
                  /\ files' = files
            [] outcome \in {"no_duration", "zero_duration"} ->
                  IF edit_ok
                  THEN /\ h' = Leave([h EXCEPT !.shown = "duration_unknown"], "done")
                       /\ files' = cleanup_files(files, <<h.input_filename>>)
                  ELSE /\ h' = [h EXCEPT !.pc = "pm_except",
                                         !.shown = "analysing",
                                         !.input_clip = files[h.input_filename].content]
                       /\ files' = files
            [] OTHER ->
                  /\ h' = [h EXCEPT
                              !.pc = "pm_register",
                              !.shown = "analysing",
                              !.input_clip = files[h.input_filename].content,
                              !.actual_duration =
                                  MediaOf(files[h.input_filename].content).duration]
                  /\ files' = files
    /\ UNCHANGED <<user_data, consumed>>

\* the Pending Operation of lines 150-155
PendingOperation_output(frame) ==
    [ input_filename    |-> frame.output_filename,
      media_type        |-> frame.media_type,
      chat_id           |-> frame.chat_id,
      status_message_id |-> frame.status_message_id ]

PendingOperation(frame) ==
    [ input_filename    |-> frame.input_filename,
      media_type        |-> frame.media_type,
      chat_id           |-> frame.chat_id,
      status_message_id |-> frame.status_message_id ]

\* lines 120-156: the buttons are built and the Pending Operation is stored
PmRegister ==
    /\ h.pc = "pm_register"
    /\ user_data' = [user_data EXCEPT ![h.user_id] =
           DictSet(@, user_key(h.file_unique_id), PendingOperation(h))]
    /\ consumed' = [consumed EXCEPT ![h.user_id] = @ \ {user_key(h.file_unique_id)}]
    /\ h' = [h EXCEPT !.pc = "pm_prompt", !.registered = TRUE,
                      !.buttons = keyboard_buttons(h.file_unique_id, h.actual_duration)]
    /\ UNCHANGED files

\* line 159: the status message is replaced by the prompt; lines 169-175
PmPrompt ==
    /\ h.pc = "pm_prompt"
    /\ \E edit_ok \in BOOLEAN :
          h' = IF edit_ok
               THEN Leave([h EXCEPT !.shown = "prompt"], "done")
               ELSE [h EXCEPT !.pc = "pm_except"]
    /\ UNCHANGED <<files, user_data, consumed>>

\* lines 161-175: the outer except, its guarded edit and its cleanup
PmExcept ==
    /\ h.pc = "pm_except"
    /\ \E edit_ok \in BOOLEAN :
          h' = Leave([h EXCEPT !.shown = IF edit_ok THEN "prepare_error" ELSE @],
                     "done")
    /\ files' = cleanup_files(files, <<h.input_filename>>)
    /\ UNCHANGED <<user_data, consumed>>

\* -------------------------------------------------------- button_handler
\* The callback_data a button press of user u can carry: the payloads
\* process_media builds for the media u sends, and payloads it never builds
\* (an unknown action, missing fields, an empty identifier, no data at all).
CallbackPayloads(u) ==
    UNION { { CallbackData(<<"process">>, a, t, base_data(id)) :
                  a \in {keep_audio, mute_audio}, t \in {no_trim, trim_word} }
            \cup { CallbackData(<<"cancel">>, <<"na">>, <<"na">>, base_data(id)),
                   CallbackData(<<"retry">>, <<"na">>, <<"na">>, base_data(id)),
                   <<"process">> \o <<":">> \o base_data(id) }
            : id \in { m.file_unique_id : m \in Inbound(u) } }
    \cup { <<"process">> \o <<":">> \o keep_audio \o <<":">> \o no_trim,
           <<"cancel">>,
           << >>,
           <<"cancel", ":", "na", ":", "na", ":">>,
           None }

\* lines 186-190, and the test of line 197
ParsedId(data) == DecodeId(Split(data))

\* lines 180-200: query.answer(), then the parse of callback_data
ButtonHandler(u, d) ==
    /\ CanDispatch
    /\ \E answer_ok \in BOOLEAN :
          LET frame == [NewFrame EXCEPT !.handler = "button_handler",
                                        !.user_id = u, !.data = d]
          IN  h' = IF ~answer_ok
                   THEN Leave(frame, "raised")
                   ELSE IF d = None
                   THEN [frame EXCEPT !.pc = "bh_parse_error"]
                   ELSE [frame EXCEPT
                            !.file_unique_id = ParsedId(d),
                            !.pc = IF ParsedId(d) \in {None, << >>}
                                   THEN "bh_no_id" ELSE "bh_lookup"]
    /\ UNCHANGED <<files, user_data, consumed>>

\* query.edit_message_text(notice) followed by cleanup_files(filenames) and
\* return: the edit is not guarded, so a failing edit leaves the handler
\* before the cleanup
NoticeThenCleanup(notice, filenames) ==
    \E edit_ok \in BOOLEAN :
        IF edit_ok
        THEN /\ h' = Leave([h EXCEPT !.shown = notice], "done")
             /\ files' = cleanup_files(files, filenames)
        ELSE /\ h' = Leave(h, "raised")
             /\ files' = files

\* lines 192-195
BhParseError ==
    /\ h.pc = "bh_parse_error"
    /\ NoticeThenCleanup("parse_error", << >>)
    /\ UNCHANGED <<user_data, consumed>>

\* lines 197-200
BhNoId ==
    /\ h.pc = "bh_no_id"
    /\ NoticeThenCleanup("no_file_id", << >>)
    /\ UNCHANGED <<user_data, consumed>>

\* the branch taken after the pop: lines 207, 220, 227-229, 254
Branch_unchecked(found, data_parts) ==
    IF data_parts[1] = <<"cancel">> THEN "bh_cancel"
    ELSE IF data_parts[1] = <<"process">>
         THEN IF Len(data_parts) < 4 THEN "bh_bad_process" ELSE "bh_process"
    ELSE "bh_unknown"

Branch(found, data_parts) ==
    IF ~found THEN "bh_stale"
    ELSE IF data_parts[1] = <<"cancel">> THEN "bh_cancel"
    ELSE IF data_parts[1] = <<"process">>
         THEN IF Len(data_parts) < 4 THEN "bh_bad_process" ELSE "bh_process"
    ELSE "bh_unknown"

\* lines 203-217: the Pending Operation is popped
BhLookup ==
    /\ h.pc = "bh_lookup"
    /\ LET key        == user_key(h.file_unique_id)
           media_data == DictGet(user_data[h.user_id], key)
           found      == media_data # NoMediaData
       IN  /\ user_data' = [user_data EXCEPT ![h.user_id] = DictPop(@, key)]
           /\ h' = [h EXCEPT
                       !.lookup = TRUE,
                       !.found = found,
                       !.repeated = (key \in consumed[h.user_id]),
                       !.branch = Branch(found, Split(h.data)),
                       !.input_filename = media_data.input_filename,
                       !.chat_id = media_data.chat_id,
                       !.status_message_id = media_data.status_message_id,
                       !.pc = Branch(found, Split(h.data))]
           /\ consumed' = IF found
                          THEN [consumed EXCEPT ![h.user_id] = @ \cup {key}]
                          ELSE consumed
    /\ UNCHANGED files

\* lines 207-213
BhStale ==
    /\ h.pc = "bh_stale"
    /\ NoticeThenCleanup("resend", <<get_temp_filenames(h.user_id)[1]>>)
    /\ UNCHANGED <<user_data, consumed>>

\* lines 220-224
BhCancel ==
    /\ h.pc = "bh_cancel"
    /\ NoticeThenCleanup("cancelled", <<h.input_filename>>)
    /\ UNCHANGED <<user_data, consumed>>

\* lines 229-233
BhBadProcess ==
    /\ h.pc = "bh_bad_process"
    /\ NoticeThenCleanup("button_data_error", <<h.input_filename>>)
    /\ UNCHANGED <<user_data, consumed>>

\* lines 254-258
BhUnknown ==
    /\ h.pc = "bh_unknown"
    /\ NoticeThenCleanup("unknown_command", <<h.input_filename>>)
    /\ UNCHANGED <<user_data, consumed>>

\* lines 236-252, 263-267: the choices, the status edit (only BadRequest is
\* caught), the chat action, and the call of _perform_conversion
BhProcess ==
    /\ h.pc = "bh_process"
    /\ \E edit \in {"ok", "BadRequest", "raises"}, chat_action_ok \in BOOLEAN :
          h' = IF edit = "raises" THEN Leave(h, "raised")
               ELSE IF ~chat_action_ok
               THEN Leave([h EXCEPT !.shown = IF edit = "ok" THEN "converting" ELSE @],
                          "raised")
               ELSE [h EXCEPT
                        !.pc = "conv_open",
                        !.shown = IF edit = "ok" THEN "converting" ELSE @,
                        !.mute = (Split(h.data)[2] = mute_audio),
                        !.trim = (Split(h.data)[3] = trim_word),
                        !.output_filename = get_temp_filenames(h.user_id)[2],
                        !.converted = TRUE]
    /\ UNCHANGED <<files, user_data, consumed>>

\* --------------------------------------------------- _perform_conversion
\* edit_status (lines 269-284) swallows every failure of the edit: after
\* the calls with these texts in this order, the message shows the text of
\* the last one that succeeded, or what it showed before.  The progress
\* texts of the steps are one text here, "progress".
edit_status(shown, texts) == {shown} \cup { texts[i] : i \in 1..Len(texts) }

Min(a, b) == IF a < b THEN a ELSE b

\* line 294
duration_to_trim(duration) == Min(duration, MAX_DURATION_SECONDS)

\* lines 300-306: the mute flag the encode sees
effective_mute(mute, audio) == mute \/ ~audio

\* lines 337, 339: audio_codec and audio_bitrate are passed exactly when
\* not mute and the output clip has an audio track
encode_audio_codec_always(mute, audio) == "aac"

encode_audio_codec(mute, audio) == IF ~mute /\ audio THEN "aac" ELSE "None"

\* lines 392-401, the finally block: the clips are closed and both
\* temporary files cleaned up; _perform_conversion and button_handler return
Returned(frame, exit_path) ==
    Leave([frame EXCEPT !.exit_path = exit_path], "done")

Finally_input(fs, frame) == cleanup_files(fs, <<frame.input_filename>>)

Finally(fs, frame) ==
    cleanup_files(fs, <<frame.input_filename, frame.output_filename>>)

\* lines 387-401: an exception of the try block is caught, the status is
\* rewritten (guarded) and the finally block runs
Except(fs, frame) ==
    /\ \E shown \in edit_status(frame.shown, <<"conversion_error">>) :
          h' = Returned([frame EXCEPT !.shown = shown], "error")
    /\ files' = Finally(fs, frame)

\* lines 287-288: the first status and the open of the input file
ConvOpen ==
    /\ h.pc = "conv_open"
    /\ \E shown \in edit_status(h.shown, <<"progress">>), open_ok \in BOOLEAN :
          IF open_ok /\ files[h.input_filename].state = "complete"
          THEN LET m == MediaOf(files[h.input_filename].content)
               IN  /\ h' = [h EXCEPT !.pc = "conv_transform", !.shown = shown,
                                     !.input_clip = m.file_unique_id,
                                     !.clip_duration = m.duration,
                                     !.clip_audio = m.audio]
                   /\ files' = files
          ELSE Except(files, [h EXCEPT !.shown = shown])
    /\ UNCHANGED <<user_data, consumed>>

\* lines 290-326: trim, mute, resize and crop; any of them may raise
ConvTransform ==
    /\ h.pc = "conv_transform"
    /\ \E ok \in BOOLEAN, shown \in edit_status(h.shown, <<"progress">>) :
          IF ok
          THEN LET d == IF h.trim THEN duration_to_trim(h.clip_duration)
                                  ELSE h.clip_duration
               IN  /\ h' = [h EXCEPT !.pc = "conv_encode", !.shown = shown,
                                     !.clip_duration = d,
                                     !.clip_audio = h.clip_audio /\ ~h.mute,
                                     !.mute = effective_mute(h.mute, h.clip_audio),
                                     !.final_duration = d]
                   /\ files' = files
          ELSE Except(files, [h EXCEPT !.shown = shown])
    /\ UNCHANGED <<user_data, consumed>>

\* lines 329-348: the status, the chat action and write_videofile, which
\* may raise before or after it has put bytes at output_filename
ConvEncode ==
    /\ h.pc = "conv_encode"
    /\ \E outcome \in {"chat_action_fails", "encode_fails", "encode_fails_written", "ok"},
          shown \in edit_status(h.shown, <<"progress">>),
          size \in FileSizes :
          CASE outcome = "ok" ->
                  /\ files' = [files EXCEPT ![h.output_filename] =
                                   Complete(h.input_clip, size)]
                  /\ h' = [h EXCEPT !.pc = "conv_size", !.shown = shown,
                              !.audio_codec = encode_audio_codec(h.mute, h.clip_audio)]
            [] outcome = "encode_fails_written" ->
                  Except([files EXCEPT ![h.output_filename] = Partial],
                         [h EXCEPT !.shown = shown])
            [] OTHER ->
                  Except(files, [h EXCEPT !.shown = shown])
    /\ UNCHANGED <<user_data, consumed>>

\* line 352
too_large(final_size) == final_size > MAX_FILE_SIZE_BYTES

\* lines 351-355: the size check; os.path.getsize raises when the file is
\* not there; the return of line 355 passes the finally block
ConvSize ==
    /\ h.pc = "conv_size"
    /\ IF files[h.output_filename].state = "absent"
       THEN Except(files, h)
       ELSE IF too_large(files[h.output_filename].size)
       THEN /\ \E shown \in edit_status(h.shown, <<"too_large">>) :
                  h' = Returned([h EXCEPT !.shown = shown], "size_limit")
            /\ files' = Finally(files, h)
       ELSE /\ h' = [h EXCEPT !.pc = "conv_upload"]
            /\ files' = files
    /\ UNCHANGED <<user_data, consumed>>

\* lines 358-385 and the finally block: the status, the chat action, the
\* one send_video_note and what follows it
ConvUpload ==
    /\ h.pc = "conv_upload"
    /\ \E outcome \in {"chat_action_fails", "sent", "TimedOut", "send_fails"},
          prior \in edit_status(h.shown, <<"progress">>),
          delete_ok \in BOOLEAN :
          CASE outcome = "chat_action_fails" ->
                  Except(files, [h EXCEPT !.shown = prior])
            [] outcome = "sent" ->
                  /\ h' = Returned([h EXCEPT
                                      !.uploads = @ + 1,
                                      !.sent_duration = h.final_duration,
                                      !.shown = IF delete_ok THEN "deleted" ELSE prior],
                                   "sent")
                  /\ files' = Finally(files, h)
            [] outcome = "TimedOut" ->
                  /\ \E shown \in edit_status(prior, <<"upload_timeout">>) :
                        h' = Returned([h EXCEPT !.uploads = @ + 1, !.shown = shown],
                                      "upload_timeout")
                  /\ files' = Finally(files, h)
            [] OTHER ->
                  /\ \E shown \in edit_status(prior, <<"upload_error">>) :
                        h' = Returned([h EXCEPT !.uploads = @ + 1, !.shown = shown],
                                      "send_failure")
                  /\ files' = Finally(files, h)
    /\ UNCHANGED <<user_data, consumed>>

\* ------------------------------------------------------------------ Spec
Next ==
    \/ \E u \in Users : \E m \in Inbound(u) : ProcessMedia(u, m)
    \/ PmReply
    \/ PmDownloadOk
    \/ PmDownloadBadRequest
    \/ PmDownloadError
    \/ PmProbe
    \/ PmRegister
    \/ PmPrompt
    \/ PmExcept
    \/ \E u \in Users : \E d \in CallbackPayloads(u) : ButtonHandler(u, d)
    \/ BhParseError
    \/ BhNoId
    \/ BhLookup
    \/ BhStale
    \/ BhCancel
    \/ BhBadProcess
    \/ BhUnknown
    \/ BhProcess
    \/ ConvOpen
    \/ ConvTransform
    \/ ConvEncode
    \/ ConvSize
    \/ ConvUpload

Spec == Init /\ [][Next]_vars

\* ---------------------------------------------------------------- claims
InputPath(u) == get_temp_filenames(u)[1]

OutputPath(u) == get_temp_filenames(u)[2]

\* the handler has returned, or has let an exception out
Ended == h.pc \in {"done", "raised"}

\* the notices process_media shows when it gives up
FailureNotices ==
    {"download_failed", "download_error", "duration_unknown", "prepare_error"}

\* C1: pop-once.  A callback whose key was popped by an earlier callback of
\* the same user, with no intake storing that key again in between, finds
\* nothing: it takes the stale/missing branch, never invokes
\* _perform_conversion, and when it returns the message shows the
\* "please resend" notice.
C1_PopOnce ==
    (h.handler = "button_handler" /\ h.repeated) =>
        /\ ~h.found
        /\ ~h.converted
        /\ h.pc \in {"bh_stale", "done", "raised"}
        /\ (h.pc = "done" => h.shown = "resend")

\* a callback on a consumed key has returned with the notice
C1_Witness ==
    /\ h.handler = "button_handler"
    /\ h.repeated
    /\ h.pc = "done"
    /\ h.shown = "resend"

C3_SizeLimitRetainsOutput ==
    (/\ h.handler = "button_handler"
     /\ h.pc = "done"
     /\ h.exit_path = "size_limit"
     /\ h.shown = "too_large") =>
        /\ h.uploads = 0
        /\ exists(files, OutputPath(h.user_id))

\* C4: a run of process_media ends either with a Pending Operation stored
\* and the prompt shown, or with a failure notice and no Pending Operation
\* left by this run; here the second half: a run that ends showing a
\* failure notice has left no Pending Operation for its identifier.
C4_FailureLeavesNoEntry ==
    (/\ h.handler = "process_media"
     /\ h.pc = "done"
     /\ h.shown \in FailureNotices) =>
        ~(/\ h.registered
          /\ user_key(h.file_unique_id) \in DOMAIN user_data[h.user_id])

\* C5: a run of process_media that ends without having stored a Pending
\* Operation leaves the user's input path absent.
C5_IntakeFailureCleansInput ==
    (/\ h.handler = "process_media"
     /\ Ended
     /\ ~h.registered) =>
        ~exists(files, InputPath(h.user_id))

\* C6: a callback with the three-field payload process:keep_audio:no_trim
\* never looks anything up in the registry and never takes the
\* stale/missing branch (it shows the parse-error notice instead).
C6_ThreeFieldsNoLookup ==
    (/\ h.handler = "button_handler"
     /\ h.data = <<"process">> \o <<":">> \o keep_audio \o <<":">> \o no_trim) =>
        /\ ~h.lookup
        /\ h.pc # "bh_stale"

\* C7: every button payload process_media builds for a file_unique_id
\* decodes, the way button_handler decodes it, to that file_unique_id.
C7_PayloadRoundTrip ==
    (h.handler = "process_media" /\ h.registered) =>
        \A b \in h.buttons : ParsedId(b) = h.file_unique_id

\* C8: for a probed duration d > 0 the prompt is one of the two fixed
\* layouts plus cancel: both process buttons carry trim when d > 60 and
\* both carry no_trim otherwise, and the cancel button carries cancel:na:na.
C8_ButtonLayout ==
    (h.handler = "process_media" /\ h.registered) =>
        LET bd == Replace(h.file_unique_id, ":", "_")
            layout(t) ==
                { <<"process", ":", "keep", "_", "audio", ":">> \o t \o <<":">> \o bd,
                  <<"process", ":", "mute", "_", "audio", ":">> \o t \o <<":">> \o bd,
                  <<"cancel", ":", "na", ":", "na", ":">> \o bd }
        IN  /\ h.actual_duration > 0
            /\ h.actual_duration > 60 => h.buttons = layout(<<"trim">>)
            /\ h.actual_duration <= 60 => h.buttons = layout(<<"no", "_", "trim">>)

\* the prompt for a medium of exactly 60 seconds is shown, without trim
C8_Witness ==
    /\ h.handler = "process_media"
    /\ h.pc = "done"
    /\ h.shown = "prompt"
    /\ h.actual_duration = 60
    /\ <<"process", ":", "keep", "_", "audio", ":", "no", "_", "trim", ":", "a", "_", "b">>
           \in h.buttons

\* C9: no failure of an external call keeps a handler from its cleanup; in
\* particular a callback that has looked up the registry and does not
\* convert (cancel, stale/missing, unknown action, malformed process) has
\* removed the user's input file when it ends, even if its edit failed.
C9_CleanupAlwaysRuns ==
    (/\ h.handler = "button_handler"
     /\ h.lookup
     /\ ~h.converted
     /\ Ended) =>
        ~exists(files, InputPath(h.user_id))

\* C10: a callback that finds a Pending Operation and does not convert
\* (cancel, unknown action, process with fewer than four fields) ends with
\* the operation's input file deleted, no conversion invoked, the Pending
\* Operation gone from the registry, and, when it returns, its notice shown.
C10_NoConversionBranches ==
    (/\ h.handler = "button_handler"
     /\ h.found
     /\ h.branch # "bh_process"
     /\ Ended) =>
        /\ ~exists(files, InputPath(h.user_id))
        /\ ~h.converted
        /\ user_key(h.file_unique_id) \notin DOMAIN user_data[h.user_id]
        /\ (h.pc = "done" =>
               h.shown = CASE h.branch = "bh_cancel" -> "cancelled"
                           [] h.branch = "bh_unknown" -> "unknown_command"
                           [] OTHER -> "button_data_error")

\* C11: users do not collide.  get_temp_filenames gives distinct users
\* disjoint pairs of paths, a user's input path is not its output path, and
\* no step of a handler that runs for one user changes a temporary file or
\* the Pending Operations of another user.
C11_UsersDoNotCollide ==
    [][ /\ \A u, v \in Users :
              u # v => {InputPath(u), OutputPath(u)}
                           \cap {InputPath(v), OutputPath(v)} = {}
        /\ \A u \in Users : InputPath(u) # OutputPath(u)
        /\ \A u \in Users \ {h'.user_id} :
              /\ files'[InputPath(u)] = files[InputPath(u)]
              /\ files'[OutputPath(u)] = files[OutputPath(u)]
              /\ user_data'[u] = user_data[u] ]_vars

\* a conversion of the second user has run to its end, cleanup included,
\* while the first user has an input file and a Pending Operation
C11_Witness ==
    /\ h.user_id = 2
    /\ h.converted
    /\ h.pc = "done"
    /\ h.exit_path = "sent"
    /\ exists(files, InputPath(1))
    /\ DOMAIN user_data[1] # {}

\* the buttons the prompt of an intake of file_unique_id offers
OfferedButtons(file_unique_id) ==
    keyboard_buttons(file_unique_id, MediaOf(file_unique_id).duration)

\* C12: intake-to-callback linkage.  A press of a button the prompt of an
\* intake of identifier id offers, made while the Pending Operation of id
\* is registered, is resolved to that Pending Operation: the identifier
\* button_handler decodes is id, and the lookup that follows finds the
\* entry (it is not the stale/missing path), whatever characters id has.
C12_IntakeToCallback ==
    \A id \in FileIds :
        (/\ h.handler = "button_handler"
         /\ ~h.lookup
         /\ h.data \in OfferedButtons(id)
         /\ user_key(id) \in DOMAIN user_data[h.user_id]) =>
            /\ h.pc = "bh_lookup"
            /\ h.file_unique_id = id

\* C13: audio handling in _perform_conversion.  With the user's choice read
\* from the payload and the audio track read from the file that was opened:
\* a chosen mute strips the track, a clip without a track makes the mute
\* flag true whatever was chosen, and the encode gets an audio codec
\* exactly when keep-audio was chosen and the clip has an audio track.
C13_AudioHandling ==
    (h.pc \in {"conv_encode", "conv_size", "conv_upload"}) =>
        LET chose_mute == Split(h.data)[2] = mute_audio
            has_audio  == MediaOf(h.input_clip).audio
        IN  /\ h.clip_audio = (has_audio /\ ~chose_mute)
            /\ h.mute = (chose_mute \/ ~has_audio)
            /\ h.pc # "conv_encode" =>
                  /\ h.audio_codec \in {"aac", "None"}
                  /\ h.audio_codec = "aac" <=> (~chose_mute /\ has_audio)

\* scenario C: an animation without audio track, keep-audio chosen, has
\* been encoded without audio codec and is about to be uploaded
C13_Witness ==
    /\ h.pc = "conv_upload"
    /\ h.input_clip = <<"a", ":", "b">>
    /\ Split(h.data)[2] = keep_audio
    /\ h.mute
    /\ h.audio_codec = "None"

\* a payload some prompt offers
Offered(data) == \E id \in FileIds : data \in OfferedButtons(id)

\* C14: duration bound.  A trim cuts the clip to min(duration, 60 s), and
\* every video note delivered after a press of a button a prompt offers
\* lasts at most 60 seconds.
C14_DurationBound ==
    [][ /\ (h.pc = "conv_transform" /\ h'.pc = "conv_encode" /\ h.trim) =>
               h'.final_duration = Min(h.clip_duration, MAX_DURATION_SECONDS)
        /\ (h.pc = "conv_upload" /\ Offered(h.data) /\ h'.exit_path = "sent") =>
               h'.sent_duration <= MAX_DURATION_SECONDS ]_vars

\* what the status message of a callback can show before the upload step
\* has its result: nothing this run wrote, or one of its progress texts
BeforeResult == {"", "converting", "progress"}

\* C15: the upload step.  A conversion makes at most one upload attempt;
\* after the attempt the handler has returned (nothing is re-raised) with
\* both temporary files removed; after a successful upload the status
\* message is deleted, after a timeout or another send failure it carries
\* the warning of that failure.  The deletion and the rewrite are guarded
\* calls: when the platform refuses one, the message stays as it was.
C15_UploadStep ==
    /\ h.uploads <= 1
    /\ h.uploads = 1 =>
          /\ h.pc = "done"
          /\ h.exit_path \in {"sent", "upload_timeout", "send_failure"}
          /\ ~exists(files, InputPath(h.user_id))
          /\ ~exists(files, OutputPath(h.user_id))
          /\ h.shown \in BeforeResult \cup
                 { CASE h.exit_path = "sent" -> "deleted"
                     [] h.exit_path = "upload_timeout" -> "upload_timeout"
                     [] OTHER -> "upload_error" }
    /\ h.exit_path \in {"sent", "upload_timeout", "send_failure"} => h.uploads = 1

\* a send failure other than a timeout: the warning is shown, the handler
\* has returned
C15_Witness ==
    /\ h.handler = "button_handler"
    /\ h.pc = "done"
    /\ h.exit_path = "send_failure"
    /\ h.shown = "upload_error"
    /\ h.uploads = 1

\* C16: ordering in intake.  In every state in which the prompt of a run of
\* process_media, with its buttons, is what the status message shows, that
\* run has already stored the Pending Operation of its identifier, and the
\* entry it stored is in the registry with the input path, the chat and
\* the status message of the run.
C16_RegisteredBeforePrompt ==
    (h.handler = "process_media" /\ h.shown = "prompt") =>
        /\ h.registered
        /\ h.buttons # {}
        /\ user_key(h.file_unique_id) \in DOMAIN user_data[h.user_id]
        /\ user_data[h.user_id][user_key(h.file_unique_id)].input_filename
               = InputPath(h.user_id)

\* the prompt of an intake of the second user is shown
C16_Witness ==
    /\ h.handler = "process_media"
    /\ h.user_id = 2
    /\ h.pc = "done"
    /\ h.shown = "prompt"
    /\ DOMAIN user_data[2] = {<<"media_", "a">>}

\* C17: the probe and the encode are suspension points.  While the probe
\* (VideoFileClip) or the encode (write_videofile) of one user's handler is
\* under way, the handler of an event of another user can be started.
C17_SuspensionPoints ==
    (h.pc \in {"pm_probe", "conv_encode"}) =>
        \E u \in Users \ {h.user_id} :
            \/ ENABLED (\E m \in Inbound(u) : ProcessMedia(u, m))
            \/ ENABLED (\E d \in CallbackPayloads(u) : ButtonHandler(u, d))

\* C18: the same-user race.  Temporary files are keyed by the user, not by
\* the operation: every Pending Operation of a user names that user's one
\* input path, the pre-cleanup of each intake of the user deletes the file
\* at that path and its download overwrites it, whatever is pending.  So a
\* second intake leaves the first Pending Operation referring to a file it
\* did not download, or to none (the witness).
C18_SameUserRace ==
    /\ \A u \in Users : \A k \in DOMAIN user_data[u] :
          user_data[u][k].input_filename = InputPath(u)
    /\ (h.handler = "process_media" /\ h.pc = "pm_reply") =>
          ~exists(files, InputPath(h.user_id))
    /\ (h.handler = "process_media" /\ h.pc = "pm_probe") =>
          files[InputPath(h.user_id)] = Complete(h.file_unique_id, 0)

\* a second intake of the first user has downloaded its media over the
\* input file of a Pending Operation registered for another identifier
C18_Witness ==
    /\ h.handler = "process_media"
    /\ h.user_id = 1
    /\ h.pc = "pm_probe"
    /\ \E id \in FileIds \ {h.file_unique_id} :
          /\ user_key(id) \in DOMAIN user_data[1]
          /\ files[user_data[1][user_key(id)].input_filename]
                 = Complete(h.file_unique_id, 0)

\* C19: a callback on the stale/missing path deletes no input file that is
\* in use: when a Pending Operation of the acting user is registered, the
\* cleanup of the stale/missing path leaves the user's input file as it is.
C19_StaleKeepsFileInUse ==
    [][ (h.pc = "bh_stale" /\ DOMAIN user_data[h.user_id] # {}) =>
            files'[InputPath(h.user_id)] = files[InputPath(h.user_id)] ]_vars

\* C20: conversions are bounded by registrations.  Step by step: a
\* conversion starts only in a callback with action process that has found
\* a Pending Operation, and at most once in it; a callback finds a Pending
\* Operation only by removing that one entry from the registry of its
\* user; and an entry comes into a registry only by the registration of a
\* run of process_media, one entry for one registration (a registration of
\* a registered identifier replaces its entry).  So the conversions started
\* never outnumber the registrations, and no registration is converted
\* twice.
C20_ConversionsBounded ==
    [][ /\ (h'.converted /\ ~h.converted) =>
              /\ h.handler = "button_handler"
              /\ h.pc = "bh_process"
              /\ h.found
              /\ Split(h.data)[1] = <<"process">>
              /\ user_key(h.file_unique_id) \notin DOMAIN user_data[h.user_id]
        /\ (h'.found /\ ~h.found) =>
              /\ h.pc = "bh_lookup"
              /\ ~h.converted
              /\ user_key(h.file_unique_id) \in DOMAIN user_data[h.user_id]
              /\ DOMAIN user_data'[h.user_id] =
                     DOMAIN user_data[h.user_id] \ {user_key(h.file_unique_id)}
        /\ \A u \in Users :
              LET new == DOMAIN user_data'[u] \ DOMAIN user_data[u]
              IN  new # {} =>
                      /\ h.handler = "process_media"
                      /\ u = h.user_id
                      /\ ~h.registered
                      /\ h'.registered
                      /\ new = {user_key(h.file_unique_id)} ]_vars

\* a callback of the first user has popped its Pending Operation and
\* started the conversion, while another Pending Operation of that user
\* stays registered
C20_Witness ==
    /\ h.handler = "button_handler"
    /\ h.user_id = 1
    /\ h.pc = "conv_open"
    /\ h.converted
    /\ h.found
    /\ user_key(h.file_unique_id) \notin DOMAIN user_data[1]
    /\ DOMAIN user_data[1] # {}

====
